---- MODULE Spec2Model ----
(***************************************************************************)
(* Model of the two scripts of Amazon-Product-Scraper:                     *)
(*   helper/proxy_tester.py  ProxyTester (asyncio tasks, semaphore, lock,  *)
(*                           read-modify-write of the proxy list file)     *)
(*   main.py                 AmazonScraper.scrape_product_data (the field  *)
(*                           extraction loop and the appended CSV row)     *)
(* Strings are sequences of one-character strings, so that strip(),        *)
(* startswith(), split(), splitlines() and join() are computed.            *)
(***************************************************************************)
EXTENDS Integers, Sequences, FiniteSets, TLC

VARIABLES
    \* ---- ProxyTester and its environment
    file,            \* text of proxy_file (sequence of characters)
    exists,          \* proxy_file.exists()
    file0,           \* text of proxy_file when test_all_proxies was entered
    connects,        \* environment: the proxies through which the page load succeeds
    max_concurrent,  \* self.max_concurrent
    phase,           \* position of test_all_proxies
    proxies,         \* local `proxies` of test_all_proxies
    pc,              \* position of each test_proxy task
    lines,           \* local `lines` of a task inside update_file_*
    result,          \* return value of each test_proxy task
    results,         \* what asyncio.gather returned
    sem_value,       \* semaphore._value
    sem_waiters,     \* semaphore._waiters (FIFO)
    locked,          \* self.lock._locked
    lock_waiters,    \* self.lock._waiters (FIFO)
    working_count,   \* self.working_count
    total_count,     \* self.total_count
    tested_count,    \* self.tested_count
    pbar_n,          \* pbar.n, advanced by pbar.update(1)
    attempts,        \* number of browser launches per task
    run,             \* number of the current run of test_all_proxies
    prev_entries,    \* entries of the file the current run started from, after the first
    \* ---- AmazonScraper.scrape_product_data
    spc,             \* position inside scrape_product_data
    fieldIdx,        \* index of the next key of `fields`
    page,            \* what the page returned for the XPaths of each field looked up
    data,            \* the dict `data`
    csv,             \* rows appended to CSV_FILE
    url              \* the parameter `url`

proxyVars == <<file, exists, file0, connects, max_concurrent, phase, proxies, pc,
               lines, result, results, sem_value, sem_waiters, locked, lock_waiters,
               working_count, total_count, tested_count, pbar_n, attempts, run,
               prev_entries>>
scrapeVars == <<spc, fieldIdx, page, data, csv, url>>
vars == <<proxyVars, scrapeVars>>

-----------------------------------------------------------------------------
\* Bounds of the model
MaxLines == 3
MaxConcurrent == 2
MaxRuns == 2

-----------------------------------------------------------------------------
\* Python string operations on sequences of characters

LF == "\n"
SP == " "

IsSpace(c) == c = SP \/ c = LF

RECURSIVE LStrip(_)
LStrip(s) == IF s = <<>> THEN s
             ELSE IF IsSpace(Head(s)) THEN LStrip(Tail(s)) ELSE s

RECURSIVE RStrip(_)
RStrip(s) == IF s = <<>> THEN s
             ELSE IF IsSpace(s[Len(s)]) THEN RStrip(SubSeq(s, 1, Len(s) - 1)) ELSE s

\* str.strip()
Strip(s) == RStrip(LStrip(s))

\* str.startswith(prefix)
StartsWith(s, prefix) ==
    /\ Len(prefix) <= Len(s)
    /\ SubSeq(s, 1, Len(prefix)) = prefix

RECURSIVE TakeToken(_)
TakeToken(s) == IF s = <<>> \/ IsSpace(Head(s)) THEN <<>>
                ELSE <<Head(s)>> \o TakeToken(Tail(s))

\* proxy.split()[0], for a string that holds a token
FirstToken(s) == TakeToken(LStrip(s))

RECURSIVE SplitLinesFrom(_, _, _)
SplitLinesFrom(t, cur, acc) ==
    IF t = <<>> THEN (IF cur = <<>> THEN acc ELSE Append(acc, cur))
    ELSE IF Head(t) = LF THEN SplitLinesFrom(Tail(t), <<>>, Append(acc, cur))
    ELSE SplitLinesFrom(Tail(t), Append(cur, Head(t)), acc)

\* str.splitlines()
SplitLines(t) == SplitLinesFrom(t, <<>>, <<>>)

RECURSIVE JoinLines(_)
\* '\n'.join(ls)
JoinLines(ls) == IF ls = <<>> THEN <<>>
                 ELSE IF Len(ls) = 1 THEN ls[1]
                 ELSE ls[1] \o <<LF>> \o JoinLines(Tail(ls))

\* '\n'.join(new_lines) + '\n'
WriteText(new_lines) == JoinLines(new_lines) \o <<LF>>

RECURSIVE Flatten(_)
Flatten(ls) == IF ls = <<>> THEN <<>> ELSE ls[1] \o <<LF>> \o Flatten(Tail(ls))

RECURSIVE SeqsUpTo(_, _)
SeqsUpTo(S, n) == IF n = 0 THEN {<<>>}
                  ELSE LET shorter == SeqsUpTo(S, n - 1)
                       IN  shorter \cup {Append(q, x) : q \in shorter, x \in S}

Range(q) == {q[i] : i \in 1..Len(q)}

-----------------------------------------------------------------------------
\* ProxyTester: the proxy list file

\* Lines a proxy file of the model may hold: an entry, a second entry that
\* starts with the first (the same host, port 80 after port 8) and is followed
\* by a blank, a comment and an empty line.
EntryA == <<"1", ":", "8">>
EntryB == <<"1", ":", "8", "0", SP>>
CommentLine == <<"#", "c">>
EmptyLine == <<>>
FileLines == {EntryA, EntryB, CommentLine, EmptyLine}

NotReturned == <<"<pending>">>
NoneVal == <<"<None>">>

RECURSIVE StripAll(_)
StripAll(ls) == IF ls = <<>> THEN <<>> ELSE <<Strip(ls[1])>> \o StripAll(Tail(ls))

IsEntryLine(line) == Strip(line) # <<>> /\ ~StartsWith(line, <<"#">>)

\* ProxyTester.load_proxies
load_proxies(fileExists, text) ==
    IF ~fileExists THEN <<>>
    ELSE StripAll(SelectSeq(SplitLines(text), IsEntryLine))

\* the list comprehension of update_file_remove_proxy
RemoveKeeps(line, proxy) ==
    Strip(line) # proxy /\ ~StartsWith(Strip(line), FirstToken(proxy))

remove_proxy_lines(ls, proxy) ==
    SelectSeq(ls, LAMBDA line : RemoveKeeps(line, proxy))

\* the list comprehension of update_file_mark_good
MarkKeeps(line, proxy) == ~StartsWith(Strip(line), FirstToken(proxy))

mark_good_lines(ls, proxy) ==
    Append(SelectSeq(ls, LAMBDA line : MarkKeeps(line, proxy)), proxy)

-----------------------------------------------------------------------------
\* ProxyTester: state after construction, the file and the network being the
\* environment's

Tasks == 1..Len(proxies)
Stages == <<"launch", "new_page", "goto", "close">>
StageSet == Range(Stages)
NextStage(st) == CHOOSE k \in StageSet :
                    \E n \in 1..(Len(Stages) - 1) : Stages[n] = st /\ Stages[n + 1] = k

ScrapeIdle ==
    /\ spc = "off"
    /\ fieldIdx = 0
    /\ page = <<>>
    /\ data = <<>>
    /\ csv = <<>>
    /\ url = <<>>

Init ==
    /\ exists \in BOOLEAN
    /\ file \in IF exists THEN {Flatten(ls) : ls \in SeqsUpTo(FileLines, MaxLines)}
                ELSE {<<>>}
    /\ file0 = file
    /\ connects \in SUBSET Range(load_proxies(exists, file))
    /\ max_concurrent \in 1..MaxConcurrent
    /\ phase = "init"
    /\ proxies = <<>>
    /\ pc = <<>>
    /\ lines = <<>>
    /\ result = <<>>
    /\ results = <<>>
    /\ sem_value = 0
    /\ sem_waiters = <<>>
    /\ locked = FALSE
    /\ lock_waiters = <<>>
    /\ working_count = 0
    /\ total_count = 0
    /\ tested_count = 0
    /\ pbar_n = 0
    /\ attempts = <<>>
    /\ run = 1
    /\ prev_entries = <<>>
    /\ ScrapeIdle

\* test_all_proxies up to the creation of the tasks by asyncio.gather
LoadProxies ==
    /\ phase = "init"
    /\ proxies' = load_proxies(exists, file)
    /\ IF proxies' = <<>>
       THEN /\ phase' = "no_proxies"
            /\ UNCHANGED <<total_count, tested_count, working_count, sem_value>>
       ELSE /\ phase' = "running"
            /\ total_count' = Len(proxies')
            /\ tested_count' = 0
            /\ working_count' = 0
            /\ sem_value' = max_concurrent
    /\ pc' = [i \in 1..Len(proxies') |-> "created"]
    /\ lines' = [i \in 1..Len(proxies') |-> <<>>]
    /\ result' = [i \in 1..Len(proxies') |-> NotReturned]
    /\ attempts' = [i \in 1..Len(proxies') |-> 0]
    /\ sem_waiters' = <<>>
    /\ pbar_n' = 0
    /\ UNCHANGED <<file, exists, file0, connects, max_concurrent, results, locked,
                   lock_waiters, run, prev_entries, scrapeVars>>

\* the event loop has run the first step of every task gather created (they
\* are scheduled together, and no browser call completes before the loop has
\* run them all)
AllStarted == \A j \in Tasks : pc[j] # "created"

\* a semaphore that never refuses a permit
SemFreeAlways == TRUE

\* asyncio.Semaphore.locked(): no permit left, or a task queued for one
SemFree == sem_value > 0 /\ sem_waiters = <<>>

\* `async with semaphore`, entered by the tasks in the order gather created them
SemAcquire(i) ==
    /\ phase = "running"
    /\ pc[i] = "created"
    /\ \A j \in 1..(i - 1) : pc[j] # "created"
    /\ IF SemFree
       THEN /\ sem_value' = sem_value - 1
            /\ pc' = [pc EXCEPT ![i] = "launch"]
            /\ attempts' = [attempts EXCEPT ![i] = @ + 1]
            /\ UNCHANGED sem_waiters
       ELSE /\ sem_waiters' = Append(sem_waiters, i)
            /\ pc' = [pc EXCEPT ![i] = "sem_wait"]
            /\ UNCHANGED <<sem_value, attempts>>
    /\ UNCHANGED <<file, exists, file0, connects, max_concurrent, phase, proxies,
                   lines, result, results, locked, lock_waiters, working_count,
                   total_count, tested_count, pbar_n, run, prev_entries, scrapeVars>>

\* a lock that is handed out while held
LockFreeAlways == TRUE

\* asyncio.Lock.acquire without waiting
LockFree == ~locked /\ lock_waiters = <<>>

\* `async with self.lock` of update_file_mark_good / update_file_remove_proxy
\* reached by task i: with the lock free the task takes it and reads the file
\* (lines = self.proxy_file.read_text().splitlines()), else it queues
EnterLock(i, kind) ==
    IF LockFree
    THEN /\ locked' = TRUE
         /\ lines' = [lines EXCEPT ![i] = SplitLines(file)]
         /\ pc' = [pc EXCEPT ![i] = kind \o "_write"]
         /\ UNCHANGED lock_waiters
    ELSE /\ lock_waiters' = Append(lock_waiters, i)
         /\ pc' = [pc EXCEPT ![i] = kind \o "_lock_wait"]
         /\ UNCHANGED <<locked, lines>>

\* a call of the try block (chromium.launch, new_page, goto, browser.close)
\* returns; after browser.close the task counts the proxy as working and
\* calls update_file_mark_good
StageOk(i) ==
    /\ phase = "running"
    /\ AllStarted
    /\ pc[i] \in StageSet
    /\ IF pc[i] = "close"
       THEN /\ proxies[i] \in connects
            /\ working_count' = working_count + 1
            /\ EnterLock(i, "good")
       ELSE /\ pc' = [pc EXCEPT ![i] = NextStage(pc[i])]
            /\ UNCHANGED <<working_count, locked, lock_waiters, lines>>
    /\ UNCHANGED <<file, exists, file0, connects, max_concurrent, phase, proxies,
                   result, results, sem_value, sem_waiters, total_count,
                   tested_count, pbar_n, attempts, run, prev_entries, scrapeVars>>

\* a handler that leaves browser.close() outside the try block
CaughtBeforeClose(stage) == stage \in StageSet \ {"close"}

\* `except Exception` of test_proxy: the exceptions of the try block it catches
Caught(stage) == stage \in StageSet

\* a call of the try block raises: the except block runs up to the
\* `async with self.lock` of update_file_remove_proxy; an exception the
\* handler does not catch ends the task
StageFail(i) ==
    /\ phase = "running"
    /\ AllStarted
    /\ pc[i] \in StageSet
    /\ proxies[i] \notin connects
    /\ IF Caught(pc[i])
       THEN EnterLock(i, "bad")
       ELSE /\ pc' = [pc EXCEPT ![i] = "raised"]
            /\ UNCHANGED <<locked, lock_waiters, lines>>
    /\ UNCHANGED <<file, exists, file0, connects, max_concurrent, phase, proxies,
                   result, results, sem_value, sem_waiters, working_count,
                   total_count, tested_count, pbar_n, attempts, run, prev_entries,
                   scrapeVars>>

\* the first waiter of the lock resumes after a release, takes the lock and
\* reads the file
LockResume(i) ==
    /\ phase = "running"
    /\ pc[i] \in {"good_lock_wait", "bad_lock_wait"}
    /\ ~locked
    /\ lock_waiters # <<>> /\ Head(lock_waiters) = i
    /\ locked' = TRUE
    /\ lock_waiters' = Tail(lock_waiters)
    /\ lines' = [lines EXCEPT ![i] = SplitLines(file)]
    /\ pc' = [pc EXCEPT ![i] = IF pc[i] = "good_lock_wait" THEN "good_write" ELSE "bad_write"]
    /\ UNCHANGED <<file, exists, file0, connects, max_concurrent, phase, proxies,
                   result, results, sem_value, sem_waiters, working_count,
                   total_count, tested_count, pbar_n, attempts, run, prev_entries,
                   scrapeVars>>

\* a task that leaves the section without giving its permit back
SemReleaseLeak(v) == v

\* semaphore.release(): the permit goes back, or to the first waiter
SemRelease(v) == v + 1

\* the rest of update_file_*: new_lines, write_text, the lock's release; then
\* pbar.update(1), the return and the exit of `async with semaphore`
WriteFile(i) ==
    /\ phase = "running"
    /\ pc[i] \in {"good_write", "bad_write"}
    /\ LET good == pc[i] = "good_write"
           new_lines == IF good THEN mark_good_lines(lines[i], proxies[i])
                        ELSE remove_proxy_lines(lines[i], proxies[i])
           v == SemRelease(sem_value)
       IN  /\ file' = WriteText(new_lines)
           /\ result' = [result EXCEPT ![i] = IF good THEN proxies[i] ELSE NoneVal]
           /\ IF sem_waiters # <<>> /\ v > 0
              THEN /\ sem_value' = v - 1
                   /\ sem_waiters' = Tail(sem_waiters)
                   /\ pc' = [pc EXCEPT ![i] = "done", ![Head(sem_waiters)] = "launch"]
                   /\ attempts' = [attempts EXCEPT ![Head(sem_waiters)] = @ + 1]
              ELSE /\ sem_value' = v
                   /\ pc' = [pc EXCEPT ![i] = "done"]
                   /\ UNCHANGED <<sem_waiters, attempts>>
    /\ lines' = [lines EXCEPT ![i] = <<>>]
    /\ locked' = FALSE
    /\ pbar_n' = pbar_n + 1
    /\ UNCHANGED <<exists, file0, connects, max_concurrent, phase, proxies,
                   results, lock_waiters, working_count, total_count, tested_count,
                   run, prev_entries, scrapeVars>>

\* asyncio.gather returns the tasks' results in the order of `proxies`, or
\* raises the exception of a task
GatherReturn ==
    /\ phase = "running"
    /\ \/ \A i \in Tasks : pc[i] = "done"
       \/ \E i \in Tasks : pc[i] = "raised"
    /\ IF \E i \in Tasks : pc[i] = "raised"
       THEN /\ phase' = "failed"
            /\ UNCHANGED results
       ELSE /\ phase' = "finished"
            /\ results' = result
    /\ UNCHANGED <<file, exists, file0, connects, max_concurrent, proxies, pc,
                   lines, result, sem_value, sem_waiters, locked, lock_waiters,
                   working_count, total_count, tested_count, pbar_n, attempts, run,
                   prev_entries, scrapeVars>>

\* the script is run again on the file it left
Rerun ==
    /\ phase = "finished"
    /\ run < MaxRuns
    /\ phase' = "init"
    /\ run' = run + 1
    /\ file0' = file
    /\ prev_entries' = load_proxies(exists, file)
    /\ proxies' = <<>>
    /\ pc' = <<>>
    /\ lines' = <<>>
    /\ result' = <<>>
    /\ results' = <<>>
    /\ attempts' = <<>>
    /\ sem_value' = 0
    /\ working_count' = 0
    /\ total_count' = 0
    /\ pbar_n' = 0
    /\ UNCHANGED <<file, exists, connects, max_concurrent, sem_waiters, locked,
                   lock_waiters, tested_count, scrapeVars>>

Next ==
    \/ \E i \in Tasks : SemAcquire(i)
    \/ \E i \in Tasks : StageOk(i)
    \/ \E i \in Tasks : StageFail(i)
    \/ \E i \in Tasks : LockResume(i)
    \/ \E i \in Tasks : WriteFile(i)
    \/ GatherReturn
    \/ LoadProxies

Spec == Init /\ [][Next]_vars

\* the event loop runs every task that can run, and the browser calls return
\* or time out
FairSpec == Spec /\ WF_vars(Next)

\* the tester run MaxRuns times in a row on its own output
RerunSpec == Init /\ [][Next \/ Rerun]_vars

-----------------------------------------------------------------------------
\* Properties of ProxyTester

Count(q, x) == Cardinality({k \in 1..Len(q) : q[k] = x})
Entries(text) == load_proxies(TRUE, text)
InSection == StageSet \cup {"good_lock_wait", "bad_lock_wait", "good_write", "bad_write"}
InUpdate == {"good_write", "bad_write"}
TasksAt(S) == {i \in Tasks : pc[i] \in S}
NonBlank(ls) == SelectSeq(ls, LAMBDA line : Strip(line) # <<>>)

\* C1: after test_all_proxies has finished, the file holds exactly the N-M
\* entries whose test succeeded: every loaded entry that connects is in the
\* file as often as it was loaded, and no other entry is.
C1_ExactlyTheSuccessfulRemain ==
    phase = "finished" =>
        /\ Len(Entries(file)) = Cardinality({i \in Tasks : proxies[i] \in connects})
        /\ \A p \in Range(proxies) \cup Range(Entries(file)) :
              Count(Entries(file), p) = IF p \in connects THEN Count(proxies, p) ELSE 0

\* C2: a second run on the file the first run left, with the same
\* connectivity, removes no entry: the set of entries after the second run
\* is the set after the first.
C2_RerunRemovesNothing ==
    (phase = "finished" /\ run = 2) => Range(Entries(file)) = Range(prev_entries)

\* C3: at every moment of a run at most max_concurrent tasks are inside
\* the section the semaphore guards.
C3_AtMostMaxConcurrentInside ==
    phase = "running" => Cardinality(TasksAt(InSection)) <= max_concurrent

\* C3 witness: the section is full while another task waits for a permit.
C3_SectionFullWithWaiter ==
    /\ phase = "running"
    /\ Cardinality(TasksAt(InSection)) = max_concurrent
    /\ TasksAt({"sem_wait"}) # {}
    /\ Len(proxies) > max_concurrent

\* C4: at most one task is between the read and the write of the file, and
\* the file still is what that task read (its write loses no update).
C4_ReadModifyWriteExclusive ==
    phase = "running" =>
        /\ Cardinality(TasksAt(InUpdate)) <= 1
        /\ \A i \in TasksAt(InUpdate) : locked /\ lines[i] = SplitLines(file)

\* C4 witness: a task holds the file between read and write while another
\* task, which has already changed or will change the file, waits for the lock.
C4_WriterWhileAnotherWaits ==
    /\ phase = "running"
    /\ TasksAt(InUpdate) # {}
    /\ TasksAt({"good_lock_wait", "bad_lock_wait"}) # {}
    /\ file # file0

\* C5: a failure of launch, new_page, goto or close takes the task to the
\* removal of its proxy: no exception reaches gather, the task writes a file
\* without that proxy and returns None, and when gather returns every proxy
\* has been tested.
C5_FailureMarksBad ==
    [][phase = "running" =>
          /\ phase' # "failed"
          /\ \A i \in Tasks :
                /\ pc'[i] # "raised"
                /\ (pc[i] \in StageSet /\ proxies[i] \notin connects /\ pc'[i] \notin StageSet)
                      => pc'[i] \in {"bad_write", "bad_lock_wait"}
                /\ (pc[i] = "bad_lock_wait" /\ pc'[i] # pc[i]) => pc'[i] = "bad_write"
                /\ (pc[i] = "bad_write" /\ pc'[i] # pc[i])
                      => /\ pc'[i] = "done"
                         /\ result'[i] = NoneVal
                         /\ proxies[i] \notin Range(Entries(file'))
          /\ phase' = "finished" =>
                /\ \A i \in Tasks : attempts[i] = 1
                /\ \A i \in Tasks : proxies[i] \notin connects => results'[i] = NoneVal
      ]_vars

\* C5 witness: gather has returned with one task that failed and returned
\* None and another that succeeded.
C5_FailedBesideWorking ==
    /\ phase = "finished"
    /\ \E i, j \in Tasks :
          /\ proxies[i] \notin connects /\ results[i] = NoneVal
          /\ proxies[j] \in connects /\ results[j] = proxies[j]

RunCompleted ==
    /\ phase = "finished"
    /\ Len(results) = Len(proxies)
    /\ \A i \in Tasks : pc[i] = "done" /\ attempts[i] = 1 /\ results[i] # NotReturned
    /\ pbar_n = Len(proxies)
    /\ sem_value = max_concurrent
    /\ sem_waiters = <<>>
    /\ ~locked

\* C6: a run over a non-empty list completes: every task gets its permit,
\* is tried once, finishes and gives the permit back, and gather returns one
\* result per loaded proxy.
C6_RunCompletes == (phase = "running") ~> RunCompleted

\* C6 witness: a completed run in which tasks had to wait for a permit and
\* both outcomes occurred.
C6_CompletedAfterWaiting ==
    /\ RunCompleted
    /\ Len(proxies) > max_concurrent
    /\ \E i, j \in Tasks : results[i] = NoneVal /\ results[j] # NoneVal

\* C9: the write of update_file_remove_proxy(p) leaves every line but the
\* entry p in the file, unchanged and in order, and the write of
\* update_file_mark_good(p) leaves every line but the entry p and keeps p
\* (blank lines aside).
C9_OnlyTheEntryChanges ==
    [][phase = "running" =>
          \A i \in Tasks :
             (pc[i] \in InUpdate /\ pc'[i] = "done") =>
                LET others(ls) == SelectSeq(NonBlank(ls), LAMBDA l : Strip(l) # proxies[i])
                IN  /\ others(SplitLines(file')) = others(lines[i])
                    /\ pc[i] = "good_write" => proxies[i] \in Range(Entries(file'))
                    /\ pc[i] = "bad_write" => proxies[i] \notin Range(Entries(file'))
      ]_vars

\* the file after the updates of the tasks, made one after the other in the
\* order of the list
RECURSIVE InListOrder(_, _)
InListOrder(ls, ps) ==
    IF ps = <<>> THEN ls
    ELSE LET p == Head(ps)
             new_lines == IF p \in connects THEN mark_good_lines(ls, p)
                          ELSE remove_proxy_lines(ls, p)
         IN  InListOrder(SplitLines(WriteText(new_lines)), Tail(ps))

\* C10: the set of lines of the file after a run is the same for every order
\* in which the tasks reach their file update: it is the set the updates
\* leave when made in the order of the list.
C10_FinalFileIndependentOfOrder ==
    phase = "finished" =>
        Range(SplitLines(file)) = Range(InListOrder(SplitLines(file0), proxies))

-----------------------------------------------------------------------------
\* AmazonScraper.scrape_product_data

CSV_COLUMNS == <<"Image", "Title", "Avg Review", "Review Count", "Has Prime",
                 "Price", "Delivery", "Availability", "Specifications", "URL">>

\* the keys of `fields`, in the order of the dict
FieldKeys == <<"Image", "Title", "Avg Review", "Review Count", "Has Prime",
               "Price", "Delivery", "Availability", "Specifications">>

\* the number of XPaths `fields` lists for a key
XPathCount(key) == IF key = "Price" THEN 2 ELSE 1

\* values of a cell of `data`: np.nan, None or a string
NaN == [tag |-> "nan", s |-> <<>>]
None == [tag |-> "none", s |-> <<>>]
Str(t) == [tag |-> "str", s |-> t]

\* What the page answers to the lookup of one XPath: no element
\* (count() = 0), a call that raises, or a first element with its inner text
\* and its src attribute.
Absent == [kind |-> "absent", text |-> <<>>, src |-> None]
Failing == [kind |-> "error", text |-> <<>>, src |-> None]
Elem(t, a) == [kind |-> "elem", text |-> t, src |-> a]

Euro == "€"
PriceText == <<SP, Euro, "9">>
DiscountText == <<"-", "2", "2", "%">>
SomeText == <<"x", SP>>
BlankText == <<SP>>
SomeSrc == <<"i">>

Lookups(key) ==
    {Absent, Failing} \cup
        IF key = "Image" THEN {Elem(<<>>, None), Elem(<<>>, Str(SomeSrc))}
        ELSE IF key = "Price" THEN {Elem(DiscountText, None), Elem(PriceText, None)}
        ELSE {Elem(BlankText, None), Elem(SomeText, None)}

Urls == {<<"u">>}

\* the Price test made on the text as the page gives it, without strip()
SkipsPriceUnstripped(key, o) == key = "Price" /\ ~StartsWith(o.text, <<Euro>>)

\* `continue` of the Price branch: the text does not start with the currency
SkipsPrice(key, o) == key = "Price" /\ ~StartsWith(Strip(o.text), <<Euro>>)

\* the value the loop body takes from a matching element
ElemValue(key, o) == IF key = "Image" THEN o.src ELSE Str(Strip(o.text))

\* whether the loop over `xpaths` goes on after the lookup o: no element
\* matched, or the Price text was skipped; a value ends it (break), an
\* exception leaves it
GoesOn(key, o) == o.kind = "absent" \/ (o.kind = "elem" /\ SkipsPrice(key, o))

\* the lookups `for xp in xpaths` makes, of those the page would answer
\* from the k-th on
RECURSIVE Consulted(_, _, _)
Consulted(key, obs, k) ==
    IF k > Len(obs) THEN <<>>
    ELSE IF GoesOn(key, obs[k]) THEN <<obs[k]>> \o Consulted(key, obs, k + 1)
    ELSE <<obs[k]>>

\* the try block of one key: val after the loop over the lookups made, or
\* the exception
TryField(key, made) ==
    IF made = <<>> THEN [raised |-> FALSE, val |-> NaN]
    ELSE LET o == made[Len(made)]
         IN  IF o.kind = "error" THEN [raised |-> TRUE, val |-> NaN]
             ELSE IF GoesOn(key, o) THEN [raised |-> FALSE, val |-> NaN]
             ELSE [raised |-> FALSE, val |-> ElemValue(key, o)]

\* a loop body without its handler
ExceptCatchesNothing == FALSE

\* the bare `except:` of the loop body catches whatever the try block raises
ExceptCatches == TRUE

\* DataFrame.to_csv: NaN and None are written as empty cells
CsvCell(v) == IF v.tag = "str" THEN v.s ELSE <<>>

ProxyIdle ==
    /\ exists = FALSE
    /\ file = <<>>
    /\ file0 = <<>>
    /\ connects = {}
    /\ max_concurrent = 1
    /\ phase = "off"
    /\ proxies = <<>>
    /\ pc = <<>>
    /\ lines = <<>>
    /\ result = <<>>
    /\ results = <<>>
    /\ sem_value = 0
    /\ sem_waiters = <<>>
    /\ locked = FALSE
    /\ lock_waiters = <<>>
    /\ working_count = 0
    /\ total_count = 0
    /\ tested_count = 0
    /\ pbar_n = 0
    /\ attempts = <<>>
    /\ run = 1
    /\ prev_entries = <<>>

\* scrape_product_data is called with a page and the url of a product
ScrapeInit ==
    /\ ProxyIdle
    /\ spc = "start"
    /\ fieldIdx = 0
    /\ page = [key \in Range(FieldKeys) |-> <<>>]
    /\ data = <<>>
    /\ csv = <<>>
    /\ url \in Urls

\* data = {col: np.nan for col in CSV_COLUMNS}; data["URL"] = url
BeginScrape ==
    /\ spc = "start"
    /\ data' = [col \in Range(CSV_COLUMNS) |-> IF col = "URL" THEN Str(url) ELSE NaN]
    /\ fieldIdx' = 1
    /\ spc' = "fields"
    /\ UNCHANGED <<page, csv, url, proxyVars>>

\* one iteration of `for key, xpaths in fields.items()`
ExtractField ==
    /\ spc = "fields"
    /\ fieldIdx <= Len(FieldKeys)
    /\ \E obs \in [1..XPathCount(FieldKeys[fieldIdx]) -> Lookups(FieldKeys[fieldIdx])] :
          /\ page' = [page EXCEPT ![FieldKeys[fieldIdx]] =
                         Consulted(FieldKeys[fieldIdx], obs, 1)]
          /\ IF ~TryField(FieldKeys[fieldIdx], page'[FieldKeys[fieldIdx]]).raised
             THEN /\ data' = [data EXCEPT ![FieldKeys[fieldIdx]] =
                                 TryField(FieldKeys[fieldIdx], page'[FieldKeys[fieldIdx]]).val]
                  /\ fieldIdx' = fieldIdx + 1
                  /\ spc' = IF fieldIdx = Len(FieldKeys) THEN "append" ELSE "fields"
             ELSE IF ExceptCatches
             THEN /\ data' = [data EXCEPT ![FieldKeys[fieldIdx]] = NaN]
                  /\ fieldIdx' = fieldIdx + 1
                  /\ spc' = IF fieldIdx = Len(FieldKeys) THEN "append" ELSE "fields"
             ELSE /\ spc' = "raised"
                  /\ UNCHANGED <<data, fieldIdx>>
    /\ UNCHANGED <<csv, url, proxyVars>>

\* df_row = pd.DataFrame([data]); df_row.to_csv(CSV_FILE, mode='a', ...)
AppendRow ==
    /\ spc = "append"
    /\ csv' = Append(csv, [col \in Range(CSV_COLUMNS) |-> CsvCell(data[col])])
    /\ spc' = "done"
    /\ UNCHANGED <<fieldIdx, page, data, url, proxyVars>>

ScrapeNext == BeginScrape \/ ExtractField \/ AppendRow

ScrapeSpec == ScrapeInit /\ [][ScrapeNext]_vars

-----------------------------------------------------------------------------
\* Properties of scrape_product_data

Row == csv[Len(csv)]
Fields == Range(FieldKeys)

\* no element matches any XPath of the field
NoMatch(key) ==
    /\ Len(page[key]) = XPathCount(key)
    /\ \A k \in 1..Len(page[key]) : page[key][k].kind = "absent"

\* the lookup of the field fails
LookupFails(key) == \E k \in 1..Len(page[key]) : page[key][k].kind = "error"

\* what an element carries where the code reads it: the src attribute of
\* the image, the text of the others
Carried(key, o) == IF key = "Image" THEN CsvCell(o.src) ELSE Strip(o.text)

\* an XPath of the field matches an element that carries something
MatchesContent(key) ==
    \E k \in 1..Len(page[key]) :
        page[key][k].kind = "elem" /\ Carried(key, page[key][k]) # <<>>

\* the element the field is read from: for Price one whose text starts
\* with the currency, for the others any
ReadFrom(key, o) ==
    /\ o.kind = "elem"
    /\ key = "Price" => StartsWith(Strip(o.text), <<Euro>>)

\* the lookups of the field reach, without failing, an element the field is
\* read from, and it carries something
Readable(key) ==
    \E k \in 1..Len(page[key]) :
        /\ ReadFrom(key, page[key][k])
        /\ Carried(key, page[key][k]) # <<>>
        /\ \A j \in 1..Len(page[key]) : page[key][j].kind # "error"

\* C7: for a field the page misses (no XPath matches, or its lookup fails)
\* the cell of the appended row is empty, the fields the page has are
\* extracted all the same, and no exception leaves the loop.
C7_MissingFieldLeftEmpty ==
    /\ spc # "raised"
    /\ spc = "done" =>
          \A key \in Fields :
             /\ (NoMatch(key) \/ LookupFails(key)) => Row[key] = <<>>
             /\ Readable(key) => Row[key] # <<>>

\* C7 witness: a row appended for a page on which one field has no element,
\* the lookup of another fails and a third is there.
C7_RowWithMissingFields ==
    /\ spc = "done"
    /\ \E a, b, c \in Fields : NoMatch(a) /\ LookupFails(b) /\ Readable(c) /\ Row[c] # <<>>

\* C8 as stated: when every field has an XPath matching an element that
\* carries something, every column of the row is non-empty, also when the
\* first Price element carries a discount.
C8_AllPresentAllNonEmpty ==
    (spc = "done" /\ \A key \in Fields : MatchesContent(key) /\ ~LookupFails(key))
        => \A col \in Range(CSV_COLUMNS) : Row[col] # <<>>

\* C8 amended: when for every field the lookups reach, without failing, an
\* element that carries something and, for Price, whose text starts with the
\* currency, every column of the row is non-empty; a first Price element
\* carrying a discount is passed over for the second XPath.
C8_AllReadableAllNonEmpty ==
    (spc = "done" /\ \A key \in Fields : Readable(key))
        => \A col \in Range(CSV_COLUMNS) : Row[col] # <<>>

\* C8 witness: a row appended for a page with every field readable, the
\* first Price element carrying a discount and the second the price.
C8_RowAfterDiscountSkipped ==
    /\ spc = "done"
    /\ \A key \in Fields : Readable(key)
    /\ page["Price"] = <<Elem(DiscountText, None), Elem(PriceText, None)>>
    /\ Row["Price"] = Strip(PriceText)

====
